---- MODULE Spec2Model ----
(***************************************************************************)
(* csv-stats: the report renderer (src/src/csvstats/utils/save_stats.py)   *)
(* and the ANOVA engine (src/build/lib/csv_stats/anova.py).                *)
(*                                                                         *)
(* Three specifications:                                                   *)
(*   Spec       one call of save_handler or of dict_to_pdf, stepped line   *)
(*              by line through dict_to_pdf and dict_to_json;              *)
(*   SpecAnova  one call of anova1way or anova2way on a small table;       *)
(*   SpecRange  the x-axis range of the bell-curve plot, as a function of  *)
(*              the plot data.                                             *)
(*                                                                         *)
(* Lengths are in tenths of a point (1 inch = 720), so that the line pitch *)
(* 0.15 inch = 10.8 pt is the integer 108.  The page-break test compares   *)
(* 756 - 10.8 k with 36; the nearest values are 43.2 (k = 66) and 32.4     *)
(* (k = 67), so floating-point rounding never changes its outcome.         *)
(***************************************************************************)
EXTENDS Integers, Sequences, FiniteSets, TLC

VARIABLES
    pc,          \* position in the running call
    entry,       \* the function the caller called
    outcome,     \* "running", "returned" or the exception raised
    returned,    \* the value returned to the caller
    result,      \* save_handler: the result mapping / anova: the mapping built
    filename,    \* the destination (None, or a name split as <<stem, suffix>>)
    render_plot, \* save_handler's render_plot
    data,        \* dict_to_pdf: the mapping to print / anova: the working table
    plot_data,   \* dict_to_pdf's plot_data
    n_lines,     \* number of lines of json_str
    idx,         \* number of lines the loop has handled
    y_position,  \* dict_to_pdf's y_position
    page,        \* number of the canvas's current page
    canvas,      \* the canvas operations so far, in order
    temp,        \* the temporary PNG: "none", "exists", "deleted"
    dest,        \* the file at the destination: [exists, content]
    dest_before, \* whether a file was at the destination before the call
    writable,    \* whether the destination can be opened for writing
    x_min,       \* left end of the plot's x axis
    x_max,       \* right end of the plot's x axis
    producer,    \* who built the result mapping save_handler is given
    input,       \* anova: the arguments the caller passed
    files        \* anova: names of the files the call has written

vars == <<pc, entry, outcome, returned, result, filename, render_plot, data,
          plot_data, n_lines, idx, y_position, page, canvas, temp, dest,
          dest_before, writable, x_min, x_max, producer, input, files>>


(***************************************************************************)
(* Bounds of the model.                                                    *)
(***************************************************************************)
MaxItems == 134
MaxRows == 3
MaxMean == 2
MaxStd == 2

(***************************************************************************)
(* Python values.  A dict is the sequence of its <<key, value>> pairs in    *)
(* insertion order; keys are sequences of strings, so that a key built by  *)
(* an f-string is the concatenation of its parts.                          *)
(***************************************************************************)
NoneV == [t |-> "none", v |-> 0]
IntV(n) == [t |-> "int", v |-> n]
FloatV(n) == [t |-> "float", v |-> n]
StrV(s) == [t |-> "str", v |-> s]
\* numpy.float64: a subclass of float (json serializes it), with .item()
NpFloatV(n) == [t |-> "npfloat", v |-> n]
\* numpy.int64, numpy.bool_: not a Python int (json rejects it), with .item()
NpIntV(n) == [t |-> "npint", v |-> n]
\* any other object: no .item(), not JSON serializable
ObjV == [t |-> "obj", v |-> 0]
ListV(s) == [t |-> "list", v |-> s]
TupleV(s) == [t |-> "tuple", v |-> s]
DictV(s) == [t |-> "dict", v |-> s]

IsSeqV(o) == o.t \in {"list", "tuple"}

Keys(d) == {d.v[i][1] : i \in 1..Len(d.v)}

HasKey(d, k) == d.t = "dict" /\ k \in Keys(d)

\* d[k], for a key d has
Get(d, k) == d.v[CHOOSE i \in 1..Len(d.v) : d.v[i][1] = k][2]

\* d[k] = x on a dict: replaces the value of an existing key in place,
\* appends a new key
DictSet(d, k, x) ==
    IF k \in Keys(d)
    THEN DictV([i \in 1..Len(d.v) |->
                  IF d.v[i][1] = k THEN <<k, x>> ELSE d.v[i]])
    ELSE DictV(Append(d.v, <<k, x>>))

RECURSIVE convert_types(_)
convert_types(obj) ==
    IF obj.t = "dict"
    THEN DictV([i \in 1..Len(obj.v) |->
                  <<obj.v[i][1], convert_types(obj.v[i][2])>>])
    ELSE IF IsSeqV(obj)
    THEN ListV([i \in 1..Len(obj.v) |-> convert_types(obj.v[i])])
    ELSE IF obj.t = "npfloat" THEN FloatV(obj.v)
    ELSE IF obj.t = "npint" THEN IntV(obj.v)
    ELSE obj

\* whether json.dumps accepts the value (otherwise it raises TypeError)
RECURSIVE Serializable(_)
Serializable(o) ==
    IF o.t = "dict"
    THEN \A i \in 1..Len(o.v) : Serializable(o.v[i][2])
    ELSE IF IsSeqV(o)
    THEN \A i \in 1..Len(o.v) : Serializable(o.v[i])
    ELSE o.t \in {"none", "int", "float", "str", "npfloat"}

(***************************************************************************)
(* json.dumps(o): the text, as its sequence of tokens.                     *)
(***************************************************************************)
Tok(k, x) == [k |-> k, x |-> x]
Punct(s) == Tok("punct", <<s>>)

RECURSIVE Dumps(_)
RECURSIVE DumpsItems(_, _)
RECURSIVE DumpsPairs(_, _)
DumpsItems(s, i) ==
    IF i > Len(s) THEN <<>>
    ELSE (IF i > 1 THEN <<Punct(",")>> ELSE <<>>)
         \o Dumps(s[i]) \o DumpsItems(s, i + 1)
DumpsPairs(s, i) ==
    IF i > Len(s) THEN <<>>
    ELSE (IF i > 1 THEN <<Punct(",")>> ELSE <<>>)
         \o <<Tok("str", s[i][1]), Punct(":")>> \o Dumps(s[i][2])
         \o DumpsPairs(s, i + 1)
Dumps(o) ==
    IF o.t = "dict" THEN <<Punct("{")>> \o DumpsPairs(o.v, 1) \o <<Punct("}")>>
    ELSE IF IsSeqV(o)
    THEN <<Punct("[")>> \o DumpsItems(o.v, 1) \o <<Punct("]")>>
    ELSE IF o.t = "none" THEN <<Tok("null", <<>>)>>
    ELSE IF o.t \in {"float", "npfloat"} THEN <<Tok("float", <<o.v>>)>>
    ELSE IF o.t = "int" THEN <<Tok("int", <<o.v>>)>>
    ELSE <<Tok("str", o.v)>>

(***************************************************************************)
(* json.loads of a token sequence: a recursive-descent parse.  Each        *)
(* operator returns [ok, val, next].                                       *)
(***************************************************************************)
ParseFail == [ok |-> FALSE, val |-> NoneV, next |-> 0]
IsPunct(toks, i, s) == i <= Len(toks) /\ toks[i] = Punct(s)

RECURSIVE ParseValue(_, _)
RECURSIVE ParseItems(_, _, _)
RECURSIVE ParsePairs(_, _, _)
ParseItems(toks, i, acc) ==
    LET r == ParseValue(toks, i) IN
    IF ~r.ok THEN ParseFail
    ELSE IF IsPunct(toks, r.next, ",")
    THEN ParseItems(toks, r.next + 1, Append(acc, r.val))
    ELSE IF IsPunct(toks, r.next, "]")
    THEN [ok |-> TRUE, val |-> ListV(Append(acc, r.val)), next |-> r.next + 1]
    ELSE ParseFail
ParsePairs(toks, i, acc) ==
    IF ~(i + 1 <= Len(toks) /\ toks[i].k = "str" /\ IsPunct(toks, i + 1, ":"))
    THEN ParseFail
    ELSE LET r == ParseValue(toks, i + 2) IN
         IF ~r.ok THEN ParseFail
         ELSE IF IsPunct(toks, r.next, ",")
         THEN ParsePairs(toks, r.next + 1, Append(acc, <<toks[i].x, r.val>>))
         ELSE IF IsPunct(toks, r.next, "}")
         THEN [ok |-> TRUE, val |-> DictV(Append(acc, <<toks[i].x, r.val>>)),
               next |-> r.next + 1]
         ELSE ParseFail
ParseValue(toks, i) ==
    IF i > Len(toks) THEN ParseFail
    ELSE IF IsPunct(toks, i, "{")
    THEN IF IsPunct(toks, i + 1, "}")
         THEN [ok |-> TRUE, val |-> DictV(<<>>), next |-> i + 2]
         ELSE ParsePairs(toks, i + 1, <<>>)
    ELSE IF IsPunct(toks, i, "[")
    THEN IF IsPunct(toks, i + 1, "]")
         THEN [ok |-> TRUE, val |-> ListV(<<>>), next |-> i + 2]
         ELSE ParseItems(toks, i + 1, <<>>)
    ELSE IF toks[i].k = "null" THEN [ok |-> TRUE, val |-> NoneV, next |-> i + 1]
    ELSE IF toks[i].k = "int"
    THEN [ok |-> TRUE, val |-> IntV(toks[i].x[1]), next |-> i + 1]
    ELSE IF toks[i].k = "float"
    THEN [ok |-> TRUE, val |-> FloatV(toks[i].x[1]), next |-> i + 1]
    ELSE IF toks[i].k = "str"
    THEN [ok |-> TRUE, val |-> StrV(toks[i].x), next |-> i + 1]
    ELSE ParseFail

\* json.load: the value read, or a failure (JSONDecodeError) when the text
\* is not one JSON document
Loads(toks) ==
    LET r == ParseValue(toks, 1) IN
    IF r.ok /\ r.next = Len(toks) + 1 THEN r ELSE ParseFail

(***************************************************************************)
(* Number of lines of json.dumps(o, indent=2): a scalar or an empty         *)
(* container takes one line; a non-empty container an opening line, the    *)
(* lines of its members and a closing line.                                *)
(***************************************************************************)
RECURSIVE IndentLines(_)
RECURSIVE SumLines(_, _, _)
\* lines of the members s[lo..hi], summed by halves
SumLines(s, lo, hi) ==
    IF lo > hi THEN 0
    ELSE IF lo = hi THEN IndentLines(s[lo])
    ELSE LET mid == (lo + hi) \div 2
         IN  SumLines(s, lo, mid) + SumLines(s, mid + 1, hi)
IndentLines(o) ==
    IF o.t = "dict"
    THEN IF Len(o.v) = 0 THEN 1
         ELSE 2 + SumLines([i \in 1..Len(o.v) |-> o.v[i][2]], 1, Len(o.v))
    ELSE IF IsSeqV(o)
    THEN IF Len(o.v) = 0 THEN 1 ELSE 2 + SumLines(o.v, 1, Len(o.v))
    ELSE 1

(***************************************************************************)
(* Tables.  A table maps each column name to the sequence of its cells;    *)
(* a name or a string cell is the sequence of its pieces, so that          *)
(* f"{g1}_{g2}" and astype(str) + '_' + astype(str) are concatenations.    *)
(* The pieces used are "a", "b", "v", "x", "y", "1" and "_".               *)
(***************************************************************************)
K(s) == <<s>>

\* str(n) of a small non-negative integer
RECURSIVE Digits(_)
Digits(n) ==
    IF n < 10
    THEN <<<<"0", "1", "2", "3", "4", "5", "6", "7", "8", "9">>[n + 1]>>
    ELSE Digits(n \div 10) \o Digits(n % 10)

\* astype(str) of one cell
AsStr(cell) == IF cell.t = "int" THEN Digits(cell.v) ELSE cell.v

NRows(tbl) == Len(tbl[CHOOSE c \in DOMAIN tbl : TRUE])

\* data[name] = column: adds the column, or replaces the one of that name
SetColumn(tbl, name, column) ==
    [c \in DOMAIN tbl \cup {name} |-> IF c = name THEN column ELSE tbl[c]]

\* Series.unique(): the distinct values, in order of first appearance
RECURSIVE UniqueFrom(_, _, _)
UniqueFrom(col, i, acc) ==
    IF i > Len(col) THEN acc
    ELSE UniqueFrom(col, i + 1,
                    IF \E j \in 1..Len(acc) : acc[j] = col[i]
                    THEN acc ELSE Append(acc, col[i]))
Unique(col) == UniqueFrom(col, 1, <<>>)

\* the cells of column dcol in the rows whose gcol cell is g, in row order
RECURSIVE GroupValuesFrom(_, _, _, _, _)
GroupValuesFrom(tbl, gcol, dcol, g, i) ==
    IF i > NRows(tbl) THEN <<>>
    ELSE (IF tbl[gcol][i] = g THEN <<tbl[dcol][i]>> ELSE <<>>)
         \o GroupValuesFrom(tbl, gcol, dcol, g, i + 1)
GroupValues(tbl, gcol, dcol, g) == GroupValuesFrom(tbl, gcol, dcol, g, 1)

\* a number the statistics library computed: which statistic, of what
LibFloat(stat, of) == [t |-> "npfloat", v |-> [stat |-> stat, of |-> of]]

(***************************************************************************)
(* calculate_summary_statistics (utils/summary_stats.py): per-group count, *)
(* mean and standard deviation of the value column, under 'grouped' with   *)
(* the keys get_plot_data reads.  Each number is kept as the statistic and *)
(* the cells it was computed over.                                         *)
(***************************************************************************)
PerGroup(tbl, gcol, dcol, stat) ==
    LET groups == Unique(tbl[gcol]) IN
    DictV([i \in 1..Len(groups) |->
             <<AsStr(groups[i]),
               LibFloat(stat, GroupValues(tbl, gcol, dcol, groups[i]))>>])

calculate_summary_statistics(tbl, gcol, dcol) ==
    DictV(<< <<K("grouped"),
               DictV(<< <<K("count"), PerGroup(tbl, gcol, dcol, "count")>>,
                        <<K("mean"), PerGroup(tbl, gcol, dcol, "mean")>>,
                        <<K("std_dev"), PerGroup(tbl, gcol, dcol, "std_dev")>>
                     >>)>> >>)

(***************************************************************************)
(* test_normality_assumption, test_variance_homogeneity_assumption         *)
(* (utils/test_assumptions.py): a statistic, a p-value and a pass flag,    *)
(* which is a Python bool or a numpy.bool_ (np_bool).                      *)
(***************************************************************************)
AssumptionResult(test, np_bool) ==
    DictV(<< <<K("statistic"), LibFloat("statistic", test)>>,
             <<K("p_value"), LibFloat("p_value", test)>>,
             <<K("passed"), IF np_bool THEN NpIntV(1) ELSE IntV(1)>> >>)

(***************************************************************************)
(* anova1way, lines 35-67: the result mapping.                             *)
(***************************************************************************)
df_between(tbl, group_column) == Len(Unique(tbl[group_column])) - 1

\* the residual degrees of freedom with one more subtracted
df_within_less_one(tbl, group_column) ==
    NRows(tbl) - Len(Unique(tbl[group_column])) - 1
df_within(tbl, group_column) == NRows(tbl) - Len(Unique(tbl[group_column]))

Anova1wayResult(tbl, group_column, data_column, np_bool) ==
    LET term == <<"C(">> \o group_column \o <<")">>
        r1 == DictSet(DictV(<<>>), K("F"), LibFloat("F", term))
        r2 == DictSet(r1, K("p"), LibFloat("round4 PR(>F)", term))
        r3 == DictSet(r2, K("df_between"), IntV(df_between(tbl, group_column)))
        r4 == DictSet(r3, K("df_within"), IntV(df_within(tbl, group_column)))
        r5 == DictSet(r4, K("summary_stats"),
                      calculate_summary_statistics(tbl, group_column, data_column))
        r6 == DictSet(r5, K("normality_test"),
                      AssumptionResult("normality", np_bool))
    IN  DictSet(r6, K("homogeneity_of_variance_test"),
                AssumptionResult("homogeneity", np_bool))

(***************************************************************************)
(* anova2way, lines 117-122: the interaction column.                       *)
(***************************************************************************)
interaction_column_name(g1, g2) == g1 \o <<"_">> \o g2

InteractionKey(c1, c2) == StrV(AsStr(c1) \o <<"_">> \o AsStr(c2))

InteractionColumn(tbl, g1, g2) ==
    [i \in 1..NRows(tbl) |-> InteractionKey(tbl[g1][i], tbl[g2][i])]

\* the table after line 121
WithInteraction(tbl, g1, g2) ==
    SetColumn(tbl, interaction_column_name(g1, g2), InteractionColumn(tbl, g1, g2))

(***************************************************************************)
(* anova2way, lines 105-146: the result mapping.                           *)
(***************************************************************************)
Effect(term) ==
    DictV(<< <<K("F"), LibFloat("F", term)>>,
             <<K("p"), LibFloat("round4 PR(>F)", term)>> >>)

Anova2wayResult(tbl, g1, g2, data_column, np_bool) ==
    LET after == WithInteraction(tbl, g1, g2)
        t1 == <<"C(">> \o g1 \o <<")">>
        t2 == <<"C(">> \o g2 \o <<")">>
        main0 == DictSet(DictSet(DictV(<<>>), g1, DictV(<<>>)), g2, DictV(<<>>))
        main == DictSet(DictSet(main0, g1, Effect(t1)), g2, Effect(t2))
        r1 == DictSet(DictV(<<>>), K("main_effects"), main)
        r2 == DictSet(r1, K("interaction"), Effect(t1 \o <<":">> \o t2))
        r3 == DictSet(r2, <<"summary_stats_">> \o g1,
                      calculate_summary_statistics(tbl, g1, data_column))
        r4 == DictSet(r3, <<"summary_stats_">> \o g2,
                      calculate_summary_statistics(tbl, g2, data_column))
        r5 == DictSet(r4, K("summary_stats_interaction"),
                      calculate_summary_statistics(
                          after, interaction_column_name(g1, g2), data_column))
        r6 == DictSet(r5, K("normality_test"),
                      AssumptionResult("normality", np_bool))
    IN  DictSet(r6, K("homogeneity_of_variance_test"),
                AssumptionResult("homogeneity", np_bool))

(***************************************************************************)
(* dict_to_pdf(data, filename=name) with no plot data, as one step: the    *)
(* text pages are drawn in memory and the file is written by c.save();     *)
(* json.dumps raises TypeError on a value it cannot serialize, c.save()    *)
(* raises OSError when the file cannot be written.                         *)
(***************************************************************************)
dict_to_pdf_text(d, name, fs, can_write) ==
    IF ~Serializable(d) THEN [outcome |-> "TypeError", files |-> fs]
    ELSE IF ~can_write THEN [outcome |-> "OSError", files |-> fs]
    ELSE [outcome |-> "returned", files |-> fs \cup {name}]

(***************************************************************************)
(* Inputs of the engine: tables of up to MaxRows rows with the factor      *)
(* columns "a" and "b".  Layout "plain" has the value column "v"; layout   *)
(* "extra" has "v" and one more source column, named "a_b"; layout         *)
(* "value" has "a_b" as its value column.  The observation in row i is i   *)
(* (10 + i in the extra source column): no step of the engine modelled     *)
(* here branches on an observation, and distinct observations show which   *)
(* rows a statistic was computed over.                                     *)
(***************************************************************************)
ColA == <<"a">>
ColB == <<"b">>
ColV == <<"v">>
ColAB == <<"a", "_", "b">>

Factor1Values == {StrV(<<"x">>), StrV(<<"x", "_", "y">>), IntV(1)}
Factor2Values == {StrV(<<"x">>), StrV(<<"y", "_", "x">>)}
RowTypes == [a : Factor1Values, b : Factor2Values]
Layouts == {"plain", "extra", "value"}

MakeTable(rows, layout) ==
    LET colA == [i \in 1..Len(rows) |-> rows[i].a]
        colB == [i \in 1..Len(rows) |-> rows[i].b]
        colV == [i \in 1..Len(rows) |-> IntV(i)]
        colX == [i \in 1..Len(rows) |-> IntV(10 + i)]
    IN  CASE layout = "plain" ->
               [c \in {ColA, ColB, ColV} |->
                  IF c = ColA THEN colA ELSE IF c = ColB THEN colB ELSE colV]
          [] layout = "extra" ->
               [c \in {ColA, ColB, ColV, ColAB} |->
                  IF c = ColA THEN colA ELSE IF c = ColB THEN colB
                  ELSE IF c = ColV THEN colV ELSE colX]
          [] layout = "value" ->
               [c \in {ColA, ColB, ColAB} |->
                  IF c = ColA THEN colA ELSE IF c = ColB THEN colB ELSE colV]

MakeInput(rows, layout) ==
    [table |-> MakeTable(rows, layout),
     group_column1 |-> ColA,
     group_column2 |-> ColB,
     data_column |-> IF layout = "value" THEN ColAB ELSE ColV]

NoFile == <<>>
Anova1wayPdf == <<"anova1way_results", ".pdf">>

\* the variables the engine does not use
renderIdle ==
    /\ filename = NoFile /\ render_plot = FALSE /\ plot_data = NoneV
    /\ n_lines = 0 /\ idx = 0 /\ y_position = 0 /\ page = 0 /\ canvas = <<>>
    /\ temp = "none" /\ dest = [exists |-> FALSE, content |-> <<>>]
    /\ dest_before = FALSE /\ x_min = 0 /\ x_max = 0 /\ producer = "caller"

renderVars == <<filename, render_plot, plot_data, n_lines, idx, y_position,
                page, canvas, temp, dest, dest_before, x_min, x_max, producer>>

InitAnova ==
    /\ pc = "call"
    /\ entry \in {"anova1way", "anova2way"}
    /\ outcome = "running"
    /\ returned = NoneV
    /\ result = DictV(<<>>)
    /\ \E n \in 0..MaxRows : \E rows \in [1..n -> RowTypes] :
         \E layout \in Layouts :
            /\ input = MakeInput(rows, layout)
            /\ data = MakeTable(rows, layout)
    /\ files = {}
    /\ writable \in BOOLEAN
    /\ renderIdle

\* ols(...).fit() and anova_lm(...) raise on a table with no rows; on any
\* other table they return or raise (the library decides)
LibraryOutcomes(tbl) == IF NRows(tbl) = 0 THEN {FALSE} ELSE BOOLEAN

(***************************************************************************)
(* anova1way(data, group_column, data_column), lines 14-71.                *)
(***************************************************************************)
Anova1way ==
    /\ pc = "call" /\ entry = "anova1way"
    /\ \E lib_ok \in LibraryOutcomes(input.table), np_bool \in BOOLEAN :
         LET tbl == input.table
             res == Anova1wayResult(tbl, input.group_column1,
                                    input.data_column, np_bool)
             pdf == dict_to_pdf_text(res, Anova1wayPdf, files, writable)
         IN  /\ data' = tbl
             /\ IF ~lib_ok
                THEN /\ pc' = "raised" /\ outcome' = "LibraryError"
                     /\ UNCHANGED <<result, returned, files>>
                ELSE /\ result' = res
                     /\ files' = pdf.files
                     /\ outcome' = pdf.outcome
                     /\ IF pdf.outcome = "returned"
                        THEN pc' = "done" /\ returned' = res
                        ELSE pc' = "raised" /\ UNCHANGED returned
    /\ UNCHANGED <<entry, input, writable, renderVars>>

(***************************************************************************)
(* anova2way(data, group_column1, group_column2, data_column),             *)
(* lines 74-148.                                                           *)
(***************************************************************************)
Anova2way ==
    /\ pc = "call" /\ entry = "anova2way"
    /\ \E lib_ok \in LibraryOutcomes(input.table), np_bool \in BOOLEAN :
         LET tbl == input.table
             res == Anova2wayResult(tbl, input.group_column1,
                                    input.group_column2, input.data_column,
                                    np_bool)
         IN  IF ~lib_ok
             THEN /\ pc' = "raised" /\ outcome' = "LibraryError"
                  /\ data' = tbl
                  /\ UNCHANGED <<result, returned>>
             ELSE /\ pc' = "done" /\ outcome' = "returned"
                  /\ data' = WithInteraction(tbl, input.group_column1,
                                             input.group_column2)
                  /\ result' = res
                  /\ returned' = res
    /\ UNCHANGED <<entry, input, files, writable, renderVars>>

NextAnova == Anova1way \/ Anova2way

SpecAnova == InitAnova /\ [][NextAnova]_vars

(***************************************************************************)
(* The renderer: page geometry, in tenths of a point.                      *)
(***************************************************************************)
Inch == 720
PageWidth == 6120
PageHeight == 7920
Margin == Inch \div 2
LineHeight == (15 * Inch) \div 100
FigWidth == 12
FigHeight == 7

\* the test of line 41
NeedsNewPageAtZero(y) == y < 0
NeedsNewPage(y) == y < Margin

CanvasOp(op, line, p, y) == [op |-> op, line |-> line, page |-> p, y |-> y]

EndsWith(name, suffix) == Len(name) > 0 /\ name[Len(name)] = suffix

\* Python's truth value of plot_data (None and {} are false)
Truthy(o) == o.t = "dict" /\ Len(o.v) > 0

\* dict.get(k, None)
GetOrNone(d, k) == IF HasKey(d, k) THEN Get(d, k) ELSE NoneV

Values(d) == [i \in 1..Len(d.v) |-> d.v[i][2].v]

RECURSIVE MinOf(_, _)
MinOf(s, i) ==
    IF i = Len(s) THEN s[i]
    ELSE LET m == MinOf(s, i + 1) IN IF s[i] <= m THEN s[i] ELSE m
RECURSIVE MaxOf(_, _)
MaxOf(s, i) ==
    IF i = Len(s) THEN s[i]
    ELSE LET m == MaxOf(s, i + 1) IN IF s[i] >= m THEN s[i] ELSE m

\* per-group ends: min and max over the groups of mean -/+ 4 * std
XRangePerGroup(pd) ==
    LET means == Get(pd, K("means"))
        stds == Get(pd, K("std_devs"))
        x_range == GetOrNone(pd, K("x_range"))
        lo == [i \in 1..Len(means.v) |->
                 means.v[i][2].v - 4 * GetOrNone(stds, means.v[i][1]).v]
        hi == [i \in 1..Len(means.v) |->
                 means.v[i][2].v + 4 * GetOrNone(stds, means.v[i][1]).v]
    IN  IF x_range = NoneV THEN <<MinOf(lo, 1), MaxOf(hi, 1)>>
        ELSE <<x_range.v[1].v, x_range.v[2].v>>

\* lines 52-63: <<x_min, x_max>>, for non-empty means and std_devs
XRange(pd) ==
    LET means == Get(pd, K("means"))
        std_devs == Get(pd, K("std_devs"))
        x_range == GetOrNone(pd, K("x_range"))
        all_means == Values(means)
        all_stds == Values(std_devs)
    IN  IF x_range = NoneV
        THEN <<MinOf(all_means, 1) - 4 * MaxOf(all_stds, 1),
               MaxOf(all_means, 1) + 4 * MaxOf(all_stds, 1)>>
        ELSE <<x_range.v[1].v, x_range.v[2].v>>

\* lines 58-61 raise ValueError (min or max of an empty list)
XRangeRaises(pd) ==
    /\ GetOrNone(pd, K("x_range")) = NoneV
    /\ \/ Len(Get(pd, K("means")).v) = 0
       \/ Len(Get(pd, K("std_devs")).v) = 0

\* get_plot_data raises (KeyError, or TypeError on a non-dict) when it
\* cannot read summary_stats['grouped']['mean'] and ['std_dev']
GetPlotDataRaises(summary_stats, plot) ==
    /\ plot
    /\ ~ /\ HasKey(summary_stats, K("grouped"))
         /\ HasKey(Get(summary_stats, K("grouped")), K("mean"))
         /\ HasKey(Get(summary_stats, K("grouped")), K("std_dev"))

get_plot_data(summary_stats, plot) ==
    IF ~plot THEN NoneV
    ELSE DictV(<< <<K("means"),
                    Get(Get(summary_stats, K("grouped")), K("mean"))>>,
                  <<K("std_devs"),
                    Get(Get(summary_stats, K("grouped")), K("std_dev"))>> >>)

(***************************************************************************)
(* Inputs of the renderer.                                                 *)
(***************************************************************************)
OutPdf == <<"out", ".pdf">>
OutJson == <<"out", ".json">>
OutOther == <<"out", ".PDF">>

PerLabel(a, b) == DictV(<< <<K("A"), FloatV(a)>>, <<K("B"), FloatV(b)>> >>)

MakePlot(means, std_devs, x_range) ==
    LET base == DictV(<< <<K("means"), means>>, <<K("std_devs"), std_devs>> >>)
    IN  IF x_range = NoneV THEN base ELSE DictSet(base, K("x_range"), x_range)

PlotOk == MakePlot(PerLabel(0, 2), PerLabel(1, 2), NoneV)
\* std_devs lacks the label "B": std_devs[label] raises KeyError at line 78
PlotMissingLabel ==
    MakePlot(PerLabel(0, 2), DictV(<< <<K("A"), FloatV(1)>> >>), NoneV)
PlotNoGroups == MakePlot(DictV(<<>>), DictV(<<>>), NoneV)
PlotEmpty == DictV(<<>>)
SmallPlots == {NoneV, PlotEmpty, PlotOk, PlotMissingLabel, PlotNoGroups}

\* every assignment of means and standard deviations to the groups A, B or
\* to one of them, with and without an explicit range
OneLabel(l, a) == DictV(<< <<K(l), FloatV(a)>> >>)
ExplicitRange == TupleV(<<IntV(-1), IntV(1)>>)
RangePlots ==
    {MakePlot(PerLabel(m1, m2), PerLabel(s1, s2), xr) :
        m1 \in -MaxMean..MaxMean, m2 \in -MaxMean..MaxMean,
        s1 \in 0..MaxStd, s2 \in 0..MaxStd, xr \in {NoneV, ExplicitRange}}
    \cup
    {MakePlot(OneLabel(l, m), OneLabel(l, sd), xr) :
        l \in {"A", "B"}, m \in -MaxMean..MaxMean, sd \in 0..MaxStd,
        xr \in {NoneV, ExplicitRange}}

\* {"k": [1, ..., n]}: n + 4 lines of indented JSON (3 lines for n = 0)
BigData(n) == DictV(<< <<K("k"), ListV([i \in 1..n |-> IntV(i)])>> >>)
UnserializableData == DictV(<< <<K("model"), ObjV>> >>)

SummaryOk ==
    DictV(<< <<K("grouped"),
               DictV(<< <<K("mean"), PerLabel(0, 2)>>,
                        <<K("std_dev"), PerLabel(1, 2)>> >>)>> >>)
HandResult ==
    DictV(<< <<K("F"), NpFloatV(3)>>,
             <<K("n"), NpIntV(4)>>,
             <<K("ci"), TupleV(<<IntV(1), NpIntV(2)>>)>>,
             <<K("summary_statistics"), SummaryOk>> >>)
HandNoGrouped == DictV(<< <<K("summary_statistics"), DictV(<<>>)>> >>)
HandObject ==
    DictV(<< <<K("summary_statistics"), SummaryOk>>, <<K("model"), ObjV>> >>)
HandResults == {HandResult, HandNoGrouped, HandObject, DictV(<<>>)}

SampleRows ==
    << [a |-> StrV(<<"x">>), b |-> StrV(<<"x">>)],
       [a |-> StrV(<<"x">>), b |-> StrV(<<"y", "_", "x">>)],
       [a |-> IntV(1), b |-> StrV(<<"x">>)] >>
SampleInput == MakeInput(SampleRows, "plain")

OldContent == <<Tok("old", <<>>)>>

\* the variables the renderer does not use
anovaIdle == input = SampleInput /\ files = {}

InitCommon ==
    /\ pc = "call" /\ outcome = "running" /\ returned = NoneV
    /\ n_lines = 0 /\ idx = 0 /\ y_position = 0 /\ page = 0 /\ canvas = <<>>
    /\ temp = "none" /\ x_min = 0 /\ x_max = 0
    /\ dest = IF dest_before THEN [exists |-> TRUE, content |-> OldContent]
              ELSE [exists |-> FALSE, content |-> <<>>]
    /\ anovaIdle

\* save_handler(result, filename, render_plot) on a mapping the caller
\* built or one of the engine's
InitSave ==
    /\ entry = "save_handler"
    /\ \/ result \in HandResults /\ producer = "caller"
       \/ \E np_bool \in BOOLEAN :
            /\ result = Anova1wayResult(SampleInput.table, ColA, ColV, np_bool)
            /\ producer = "anova1way"
       \/ \E np_bool \in BOOLEAN :
            /\ result = Anova2wayResult(SampleInput.table, ColA, ColB, ColV,
                                        np_bool)
            /\ producer = "anova2way"
    /\ filename \in {NoFile, OutPdf, OutJson, OutOther}
    /\ render_plot \in BOOLEAN
    /\ dest_before \in BOOLEAN
    /\ writable \in BOOLEAN
    /\ data = NoneV /\ plot_data = NoneV
    /\ InitCommon

\* dict_to_pdf(data, plot_data, filename) called directly
InitPdf ==
    /\ entry = "dict_to_pdf"
    /\ result = NoneV /\ producer = "caller" /\ render_plot = FALSE
    /\ \/ /\ \E n \in 0..MaxItems : data = BigData(n)
          /\ plot_data \in {NoneV, PlotOk}
          /\ filename = OutPdf /\ dest_before = FALSE /\ writable = TRUE
       \/ /\ data \in {DictV(<<>>), UnserializableData}
          /\ plot_data \in SmallPlots
          /\ filename \in {NoFile, OutPdf}
          /\ dest_before \in BOOLEAN /\ writable \in BOOLEAN
       \/ /\ data = DictV(<<>>)
          /\ plot_data \in RangePlots
          /\ filename = OutPdf /\ dest_before = FALSE /\ writable = TRUE
    /\ InitCommon

Init == InitSave \/ InitPdf

callArgs == <<entry, result, filename, render_plot, dest_before, writable,
              producer, input, files>>

Raise(exc) == pc' = "raised" /\ outcome' = exc /\ UNCHANGED returned

Return(value) == pc' = "done" /\ outcome' = "returned" /\ returned' = value

(***************************************************************************)
(* save_handler, lines 154-168, up to the call of dict_to_pdf or of        *)
(* dict_to_json; it returns what that call returns (line 170).  A name     *)
(* with neither suffix leaves `returned` unbound: UnboundLocalError.       *)
(***************************************************************************)
SaveHandler ==
    /\ pc = "call" /\ entry = "save_handler"
    /\ LET converted_result == convert_types(result) IN
       IF filename = NoFile
       THEN Return(result) /\ UNCHANGED <<data, plot_data>>
       ELSE IF EndsWith(filename, ".pdf")
       THEN IF ~HasKey(converted_result, K("summary_statistics"))
            THEN Raise("KeyError") /\ UNCHANGED <<data, plot_data>>
            ELSE LET summary == Get(converted_result, K("summary_statistics")) IN
                 IF GetPlotDataRaises(summary, render_plot)
                 THEN Raise("KeyError") /\ UNCHANGED <<data, plot_data>>
                 ELSE /\ pc' = "pdf_enter"
                      /\ data' = converted_result
                      /\ plot_data' = get_plot_data(summary, render_plot)
                      /\ UNCHANGED <<outcome, returned>>
       ELSE IF EndsWith(filename, ".json")
       THEN /\ pc' = "json_dumps"
            /\ data' = converted_result
            /\ UNCHANGED <<outcome, returned, plot_data>>
       ELSE Raise("UnboundLocalError") /\ UNCHANGED <<data, plot_data>>
    /\ UNCHANGED <<n_lines, idx, y_position, page, canvas, temp, dest,
                   x_min, x_max, callArgs>>

(***************************************************************************)
(* dict_to_pdf, lines 24-38: no destination returns at once; otherwise     *)
(* the canvas is created (in memory: the file is written by c.save()) and  *)
(* the mapping is serialized with indent=2.                                *)
(***************************************************************************)
DictToPdfEnter ==
    /\ \/ pc = "pdf_enter"
       \/ pc = "call" /\ entry = "dict_to_pdf"
    /\ IF filename = NoFile
       THEN Return(NoneV) /\ UNCHANGED <<n_lines, y_position, page>>
       ELSE IF ~Serializable(data)
       THEN Raise("TypeError") /\ UNCHANGED <<n_lines, y_position, page>>
       ELSE /\ pc' = "loop"
            /\ n_lines' = IndentLines(data)
            /\ y_position' = PageHeight - Margin
            /\ page' = 1
            /\ UNCHANGED <<outcome, returned>>
    /\ UNCHANGED <<data, plot_data, idx, canvas, temp, dest, x_min, x_max,
                   callArgs>>

(***************************************************************************)
(* One iteration of the loop of lines 40-46.                               *)
(***************************************************************************)
DrawLine ==
    /\ pc = "loop" /\ idx < n_lines
    /\ LET break == NeedsNewPage(y_position)
           y == IF break THEN PageHeight - Margin ELSE y_position
           p == IF break THEN page + 1 ELSE page
           shown == IF break
                    THEN Append(canvas, CanvasOp("showPage", 0, page, 0))
                    ELSE canvas
       IN  /\ canvas' = Append(shown, CanvasOp("drawString", idx + 1, p, y))
           /\ page' = p
           /\ y_position' = y - LineHeight
           /\ idx' = idx + 1
    /\ UNCHANGED <<pc, outcome, returned, data, plot_data, n_lines, temp, dest,
                   x_min, x_max, callArgs>>

(***************************************************************************)
(* After the loop, lines 49-63: with plot data, a new page and the x-axis  *)
(* range; without, straight to c.save().                                   *)
(***************************************************************************)
AfterLoop ==
    /\ pc = "loop" /\ idx = n_lines
    /\ IF ~Truthy(plot_data)
       THEN /\ pc' = "save"
            /\ UNCHANGED <<outcome, returned, page, canvas, x_min, x_max>>
       ELSE /\ canvas' = Append(canvas, CanvasOp("showPage", 0, page, 0))
            /\ page' = page + 1
            /\ IF XRangeRaises(plot_data)
               THEN Raise("ValueError") /\ UNCHANGED <<x_min, x_max>>
               ELSE /\ pc' = "tempfile"
                    /\ x_min' = XRange(plot_data)[1]
                    /\ x_max' = XRange(plot_data)[2]
                    /\ UNCHANGED <<outcome, returned>>
    /\ UNCHANGED <<data, plot_data, n_lines, idx, y_position, temp, dest,
                   callArgs>>

(***************************************************************************)
(* Lines 66-67: NamedTemporaryFile(suffix='.png', delete=False).           *)
(***************************************************************************)
CreateTemp ==
    /\ pc = "tempfile"
    /\ pc' = "plot"
    /\ temp' = "exists"
    /\ UNCHANGED <<outcome, returned, data, plot_data, n_lines, idx,
                   y_position, page, canvas, dest, x_min, x_max, callArgs>>

(***************************************************************************)
(* Lines 69-89, inside the with block: one curve per label of means;       *)
(* std_devs[label] raises KeyError for a label std_devs lacks.  Leaving    *)
(* the with block closes the file and, delete=False, keeps it.             *)
(***************************************************************************)
PlotCurves ==
    /\ pc = "plot"
    /\ IF Keys(Get(plot_data, K("means"))) \subseteq
          Keys(Get(plot_data, K("std_devs")))
       THEN pc' = "savefig" /\ UNCHANGED <<outcome, returned>>
       ELSE Raise("KeyError")
    /\ UNCHANGED <<data, plot_data, n_lines, idx, y_position, page, canvas,
                   temp, dest, x_min, x_max, callArgs>>

(***************************************************************************)
(* Lines 92-93: plt.savefig writes the PNG, or raises (OSError).           *)
(***************************************************************************)
Savefig ==
    /\ pc = "savefig"
    /\ \/ pc' = "draw_image" /\ UNCHANGED <<outcome, returned>>
       \/ Raise("OSError")
    /\ UNCHANGED <<data, plot_data, n_lines, idx, y_position, page, canvas,
                   temp, dest, x_min, x_max, callArgs>>

\* lines 95-108: the centred, aspect-preserving box [x, y, width, height]
ImageBox ==
    LET w == PageWidth - 2 * Margin
        h == PageHeight - 2 * Margin
        height_limited == w * FigHeight > h * FigWidth
        img_height == IF height_limited THEN h ELSE (w * FigHeight) \div FigWidth
        img_width == IF height_limited THEN (h * FigWidth) \div FigHeight ELSE w
    IN  [x |-> Margin + (w - img_width) \div 2,
         y |-> Margin + (h - img_height) \div 2,
         width |-> img_width, height |-> img_height]

(***************************************************************************)
(* Lines 95-111: c.drawImage embeds the PNG, or raises (it reads the       *)
(* file through the imaging library).                                      *)
(***************************************************************************)
DrawImage ==
    /\ pc = "draw_image"
    /\ \/ /\ pc' = "unlink"
          /\ canvas' = Append(canvas, CanvasOp("drawImage", 0, page, ImageBox.y))
          /\ UNCHANGED <<outcome, returned>>
       \/ Raise("OSError") /\ UNCHANGED canvas
    /\ UNCHANGED <<data, plot_data, n_lines, idx, y_position, page, temp, dest,
                   x_min, x_max, callArgs>>

(***************************************************************************)
(* Line 114, after the with block: os.unlink(temp_filename).               *)
(***************************************************************************)
Unlink ==
    /\ pc = "unlink"
    /\ pc' = "save"
    /\ temp' = "deleted"
    /\ UNCHANGED <<outcome, returned, data, plot_data, n_lines, idx,
                   y_position, page, canvas, dest, x_min, x_max, callArgs>>

(***************************************************************************)
(* Lines 116-117: c.save() writes the document to the destination, or      *)
(* raises when it cannot open it; dict_to_pdf then returns None, and so    *)
(* does save_handler.                                                      *)
(***************************************************************************)
CanvasSave ==
    /\ pc = "save"
    /\ IF writable
       THEN /\ Return(NoneV)
            /\ canvas' = Append(canvas, CanvasOp("save", 0, page, 0))
            /\ dest' = [exists |-> TRUE, content |-> <<Tok("pdf", <<page>>)>>]
       ELSE Raise("OSError") /\ UNCHANGED <<canvas, dest>>
    /\ UNCHANGED <<data, plot_data, n_lines, idx, y_position, page, temp,
                   x_min, x_max, callArgs>>

(***************************************************************************)
(* dict_to_json, line 146: str_result = json.dumps(result).                *)
(***************************************************************************)
JsonDumps ==
    /\ pc = "json_dumps"
    /\ IF Serializable(data)
       THEN pc' = "json_open" /\ UNCHANGED <<outcome, returned>>
       ELSE Raise("TypeError")
    /\ UNCHANGED <<data, plot_data, n_lines, idx, y_position, page, canvas,
                   temp, dest, x_min, x_max, callArgs>>

(***************************************************************************)
(* Line 147: open(filename, 'w') creates the file, or empties the one      *)
(* there, or raises when it cannot.                                        *)
(***************************************************************************)
JsonOpen ==
    /\ pc = "json_open"
    /\ IF writable
       THEN /\ pc' = "json_dump"
            /\ dest' = [exists |-> TRUE, content |-> <<>>]
            /\ UNCHANGED <<outcome, returned>>
       ELSE Raise("OSError") /\ UNCHANGED dest
    /\ UNCHANGED <<data, plot_data, n_lines, idx, y_position, page, canvas,
                   temp, x_min, x_max, callArgs>>

(***************************************************************************)
(* Lines 149-151: json.dump(f, result) takes the open file f as the        *)
(* object to serialize and the mapping as the file to write to.  It        *)
(* serializes before it writes; f is not serializable, so it raises        *)
(* TypeError with nothing written, and the with block closes the file.     *)
(***************************************************************************)
JsonDump ==
    /\ pc = "json_dump"
    /\ LET obj == ObjV IN
       IF Serializable(obj)
       THEN /\ Return(StrV(Dumps(data)))
            /\ dest' = [exists |-> TRUE, content |-> dest.content \o Dumps(obj)]
       ELSE Raise("TypeError") /\ UNCHANGED dest
    /\ UNCHANGED <<data, plot_data, n_lines, idx, y_position, page, canvas,
                   temp, x_min, x_max, callArgs>>

Next ==
    \/ SaveHandler
    \/ DictToPdfEnter
    \/ DrawLine
    \/ AfterLoop
    \/ CreateTemp
    \/ PlotCurves
    \/ Savefig
    \/ DrawImage
    \/ Unlink
    \/ CanvasSave
    \/ JsonDumps
    \/ JsonOpen
    \/ JsonDump

Spec == Init /\ [][Next]_vars

(***************************************************************************)
(* Properties of the renderer (specification Spec).                        *)
(***************************************************************************)
Finished == pc \in {"done", "raised"}

\* C1: on every exit of dict_to_pdf after the temporary PNG was created
\* (return or exception), the temporary file no longer exists.
C1_TempFileRemoved == (Finished /\ temp # "none") => temp = "deleted"

\* C2: when a call of save_handler with a destination raises, no file is at
\* the destination that was not there before the call.
C2_NoPartialFile ==
    (entry = "save_handler" /\ pc = "raised" /\ ~dest_before) => ~dest.exists

\* C3: for a destination ending in ".json" (writable, and a mapping JSON can
\* represent once converted), save_handler completes, the file holds the
\* converted mapping serialized once, and reading it back gives that mapping.
C3_JsonRoundTrip ==
    (/\ entry = "save_handler" /\ EndsWith(filename, ".json") /\ Finished
     /\ writable /\ Serializable(convert_types(result)))
    => /\ outcome = "returned"
       /\ dest.exists
       /\ dest.content = Dumps(convert_types(result))
       /\ Loads(dest.content).ok
       /\ Loads(dest.content).val = convert_types(result)

\* C5: for a mapping built by anova1way or anova2way and a destination
\* ending in ".pdf", save_handler finds every key it reads: no KeyError.
C5_KeysPreserved ==
    (/\ entry = "save_handler" /\ producer \in {"anova1way", "anova2way"}
     /\ EndsWith(filename, ".pdf") /\ Finished)
    => outcome # "KeyError"

SameLabels(pd) ==
    Keys(Get(pd, K("means"))) = Keys(Get(pd, K("std_devs")))
Labels(pd) == Keys(Get(pd, K("means")))
MeanOf(pd, g) == Get(Get(pd, K("means")), g).v
StdOf(pd, g) == Get(Get(pd, K("std_devs")), g).v
NoExplicitRange(pd) == GetOrNone(pd, K("x_range")) = NoneV
ExplicitUsed(pd) ==
    /\ x_min = Get(pd, K("x_range")).v[1].v
    /\ x_max = Get(pd, K("x_range")).v[2].v

\* C7 as claimed: without an explicit x_range the axis runs from the least
\* mean_g - 4 std_g to the greatest mean_g + 4 std_g over the groups g; an
\* explicit x_range is used unchanged.
C7_PerGroupRange ==
    (pc = "tempfile" /\ SameLabels(plot_data))
    => IF NoExplicitRange(plot_data)
       THEN /\ \E g \in Labels(plot_data) :
                 x_min = MeanOf(plot_data, g) - 4 * StdOf(plot_data, g)
            /\ \A g \in Labels(plot_data) :
                 x_min <= MeanOf(plot_data, g) - 4 * StdOf(plot_data, g)
            /\ \E g \in Labels(plot_data) :
                 x_max = MeanOf(plot_data, g) + 4 * StdOf(plot_data, g)
            /\ \A g \in Labels(plot_data) :
                 x_max >= MeanOf(plot_data, g) + 4 * StdOf(plot_data, g)
       ELSE ExplicitUsed(plot_data)

\* C7 as amended: without an explicit x_range the axis runs from (the least
\* mean) - 4 (the greatest std) to (the greatest mean) + 4 (the greatest
\* std); an explicit x_range is used unchanged.
C7_SharedRange ==
    (pc = "tempfile" /\ SameLabels(plot_data))
    => IF NoExplicitRange(plot_data)
       THEN \E lo \in Labels(plot_data), hi \in Labels(plot_data),
               w \in Labels(plot_data) :
              /\ \A g \in Labels(plot_data) :
                   /\ MeanOf(plot_data, lo) <= MeanOf(plot_data, g)
                   /\ MeanOf(plot_data, hi) >= MeanOf(plot_data, g)
                   /\ StdOf(plot_data, w) >= StdOf(plot_data, g)
              /\ x_min = MeanOf(plot_data, lo) - 4 * StdOf(plot_data, w)
              /\ x_max = MeanOf(plot_data, hi) + 4 * StdOf(plot_data, w)
       ELSE ExplicitUsed(plot_data)

\* two groups, means 0 and 2, stds 2 and 0: the axis is [-8, 10], while the
\* greatest mean_g + 4 std_g is 8
C7_Witness ==
    /\ pc = "tempfile" /\ NoExplicitRange(plot_data)
    /\ plot_data = MakePlot(PerLabel(0, 2), PerLabel(2, 0), NoneV)
    /\ x_min = -8 /\ x_max = 10

IsDraw(o) == o.op = "drawString"
Draws == SelectSeq(canvas, IsDraw)
Top == PageHeight - Margin

\* C9: the loop draws each line once and in order, each at a height between
\* the bottom margin and the top margin; a line starts a new page exactly
\* when the position after the previous line is below the bottom margin,
\* and the first line of a page is at the top margin; the plot page follows
\* all the text pages; the document is saved once, as the last operation.
C9_Pagination ==
    /\ \A j \in 1..Len(Draws) :
         /\ Draws[j].line = j
         /\ Margin <= Draws[j].y /\ Draws[j].y <= Top
    /\ pc = "loop" => Len(Draws) = idx /\ idx <= n_lines
    /\ pc # "loop" => Len(Draws) = n_lines
    /\ canvas # <<>> => n_lines = IndentLines(data)
    /\ \A k \in 1..Len(canvas) :
         /\ IsDraw(canvas[k]) /\ canvas[k].line = 1 =>
              k = 1 /\ canvas[k].y = Top /\ canvas[k].page = 1
         /\ IsDraw(canvas[k]) /\ canvas[k].line > 1 =>
              LET prev == Draws[canvas[k].line - 1] IN
              IF prev.y - LineHeight < Margin
              THEN /\ canvas[k - 1].op = "showPage"
                   /\ canvas[k - 2] = prev
                   /\ canvas[k].page = prev.page + 1
                   /\ canvas[k].y = Top
              ELSE /\ canvas[k - 1] = prev
                   /\ canvas[k].page = prev.page
                   /\ canvas[k].y = prev.y - LineHeight
         /\ canvas[k].op = "drawImage" =>
              /\ k = n_lines + canvas[k].page
              /\ canvas[k - 1].op = "showPage"
              /\ canvas[k - 2] = Draws[n_lines]
              /\ canvas[k].page = Draws[n_lines].page + 1
         /\ canvas[k].op = "save" => k = Len(canvas) /\ pc = "done"
    /\ \A j \in 2..Len(Draws) :
         Draws[j].page # Draws[j - 1].page => Draws[j].y = Top
    /\ (pc = "done" /\ filename # NoFile) =>
          /\ canvas[Len(canvas)].op = "save"
          /\ Truthy(plot_data) => canvas[Len(canvas) - 1].op = "drawImage"

\* three pages of text (the third starts at line 135), then the plot page
C9_Witness ==
    /\ pc = "done" /\ n_lines >= 135 /\ page = 4
    /\ canvas[Len(canvas) - 1].op = "drawImage"

(***************************************************************************)
(* Properties of the engine (specification SpecAnova).                     *)
(***************************************************************************)
Levels(tbl, col) == {tbl[col][i] : i \in 1..NRows(tbl)}

\* a one-way design with at least 2 levels and residual degrees of freedom
OneWayDesign ==
    LET k == Cardinality(Levels(input.table, input.group_column1))
    IN  k >= 2 /\ NRows(input.table) > k

\* a two-way design with at least 2 levels of each factor
TwoWayDesign ==
    /\ Cardinality(Levels(input.table, input.group_column1)) >= 2
    /\ Cardinality(Levels(input.table, input.group_column2)) >= 2

\* C4: a call that is given no destination writes no file: a completed
\* anova1way call has written none.
C4_NoDestinationNoFile ==
    (entry = "anova1way" /\ outcome = "returned" /\ OneWayDesign)
    => files = {}

\* C6: for a table with at least 2 levels in the grouping column, anova1way
\* returns df_between = levels - 1 and df_within = rows - levels, both
\* non-negative integers.
C6_DegreesOfFreedom ==
    LET k == Cardinality(Levels(input.table, input.group_column1))
        n == NRows(input.table)
    IN  (entry = "anova1way" /\ outcome = "returned" /\ k >= 2)
        => /\ Get(returned, K("df_between")) = IntV(k - 1)
           /\ Get(returned, K("df_within")) = IntV(n - k)
           /\ k - 1 >= 0 /\ n - k >= 0

\* three rows in two levels: df_between = 1, df_within = 1
C6_Witness ==
    /\ entry = "anova1way" /\ outcome = "returned"
    /\ NRows(input.table) = 3
    /\ Cardinality(Levels(input.table, input.group_column1)) = 2
    /\ Get(returned, K("df_within")) = IntV(1)

\* a name no table of the model uses
FreshColumn == <<"interaction">>

\* C8: after anova2way every source column of the table holds the values it
\* held before, and the interaction summary is computed over the original
\* value column, grouped by the interaction key.
C8_InteractionColumnDerived ==
    (entry = "anova2way" /\ outcome = "returned" /\ TwoWayDesign)
    => /\ \A c \in DOMAIN input.table : data[c] = input.table[c]
       /\ Get(returned, K("summary_stats_interaction")) =
            calculate_summary_statistics(
                SetColumn(input.table, FreshColumn,
                          InteractionColumn(input.table, input.group_column1,
                                            input.group_column2)),
                FreshColumn, input.data_column)

\* C10: two rows have the same interaction key exactly when they have the
\* same factor1 value and the same factor2 value.
C10_KeyIdentifiesCell ==
    (entry = "anova2way" /\ outcome = "returned" /\ TwoWayDesign)
    => LET tbl == input.table
           key == data[interaction_column_name(input.group_column1,
                                               input.group_column2)]
       IN  \A i \in 1..NRows(tbl), j \in 1..NRows(tbl) :
             (key[i] = key[j])
             <=> /\ tbl[input.group_column1][i] = tbl[input.group_column1][j]
                 /\ tbl[input.group_column2][i] = tbl[input.group_column2][j]
====
